---- MODULE Spec2Model ----
(***************************************************************************)
(* Model of voice-assistant.py: the producer callback, the frame queue,    *)
(* the wake-word loop of main, listen_for_dictation, type_text and         *)
(* check_wake_word.                                                        *)
(*                                                                         *)
(* Texts are sequences of characters, one character per string.  The       *)
(* module's strings are ASCII, so a Cyrillic letter is written "cyr_x" and *)
(* its capital "CYR_X"; U+0130 (capital I with dot above) is "I_dot" and   *)
(* U+0307 (combining dot above) is "dot_above".                            *)
(*                                                                         *)
(* Time is counted in whole seconds and passes in the action Tick; a poll  *)
(* of the queue that times out (0.1 s in listen_for_dictation) is shorter  *)
(* than the unit, so the time it takes is part of the Tick around it.      *)
(***************************************************************************)
EXTENDS Integers, Sequences, FiniteSets, TLC

(***************************************************************************)
(* Bounds of the model.                                                    *)
(***************************************************************************)
\* frames the queue holds at most in the model (queue.Queue() has no limit)
MaxQueue == 2
\* word-carrying frames the producer pushes at most in one run
MaxWords == 3
\* segments concatenated into a text handed to check_wake_word on its own
MaxSegs == 3

(***************************************************************************)
(* Characters and the str methods the program uses.                        *)
(***************************************************************************)
\* "компьютер"
W_kompyuter ==
    <<"cyr_k", "cyr_o", "cyr_m", "cyr_p", "cyr_soft", "cyr_yu", "cyr_t", "cyr_e", "cyr_r">>
\* "компютер"
W_komputer ==
    <<"cyr_k", "cyr_o", "cyr_m", "cyr_p", "cyr_yu", "cyr_t", "cyr_e", "cyr_r">>
\* "computer"
W_computer ==
    <<"c", "o", "m", "p", "u", "t", "e", "r">>
\* "привет"
W_privet ==
    <<"cyr_p", "cyr_r", "cyr_i", "cyr_v", "cyr_e", "cyr_t">>
\* "hello"
W_hello ==
    <<"h", "e", "l", "l", "o">>

\* LANGUAGES: the wake words of each language, in declared order
LANGUAGES ==
    [ru |-> [wake_words |-> <<W_kompyuter, W_komputer>>],
     en |-> [wake_words |-> <<W_computer>>]]

\* the iteration order of LANGUAGES.items() and recognizers.items()
LangOrder ==
    <<"ru", "en">>

Langs ==
    {LangOrder[i] : i \in 1..Len(LangOrder)}

\* str.lower() of one character, as a text: the capitals that occur in the
\* model's texts, and U+0130, whose lower case is the two characters
\* "i" + U+0307
LowerChar(c) ==
    CASE c = "C" -> <<"c">>
      [] c = "O" -> <<"o">>
      [] c = "M" -> <<"m">>
      [] c = "P" -> <<"p">>
      [] c = "U" -> <<"u">>
      [] c = "T" -> <<"t">>
      [] c = "E" -> <<"e">>
      [] c = "R" -> <<"r">>
      [] c = "CYR_K" -> <<"cyr_k">>
      [] c = "CYR_O" -> <<"cyr_o">>
      [] c = "I_dot" -> <<"i", "dot_above">>
      [] OTHER -> <<c>>

RECURSIVE lower(_)
\* str.lower()
lower(text) ==
    IF text = <<>> THEN <<>> ELSE LowerChar(Head(text)) \o lower(Tail(text))

IsSpace(c) ==
    c = " "

RECURSIVE lstrip(_)
lstrip(text) ==
    IF text # <<>> /\ IsSpace(Head(text)) THEN lstrip(Tail(text)) ELSE text

RECURSIVE rstrip(_)
rstrip(text) ==
    IF text # <<>> /\ IsSpace(text[Len(text)])
    THEN rstrip(SubSeq(text, 1, Len(text) - 1))
    ELSE text

\* str.strip()
strip(text) ==
    lstrip(rstrip(text))

\* the 0-based positions at which sub occurs in text
Occurrences(sub, text) ==
    {i \in 0..(Len(text) - Len(sub)) : SubSeq(text, i + 1, i + Len(sub)) = sub}

\* sub in text
contains(sub, text) ==
    Occurrences(sub, text) # {}

\* text.find(sub)
find(text, sub) ==
    IF Occurrences(sub, text) = {} THEN -1
    ELSE CHOOSE i \in Occurrences(sub, text) : \A j \in Occurrences(sub, text) : i <= j

\* text[k:]
slice_from(text, k) ==
    SubSeq(text, k + 1, Len(text))

RECURSIVE join(_)
\* " ".join(parts)
join(parts) ==
    IF parts = <<>> THEN <<>>
    ELSE IF Len(parts) = 1 THEN parts[1]
    ELSE parts[1] \o <<" ">> \o join(Tail(parts))

(***************************************************************************)
(* check_wake_word                                                         *)
(***************************************************************************)
RECURSIVE wake_loop(_, _, _)
\* the for loop of check_wake_word over the wake words from index k on
wake_loop(text, words, k) ==
    IF k > Len(words) THEN [found |-> FALSE, remainder |-> <<>>]
    ELSE IF contains(words[k], lower(text))
    THEN LET idx == find(lower(text), words[k])
         IN  [found |-> TRUE,
              remainder |-> strip(slice_from(text, idx + Len(words[k])))]
    ELSE wake_loop(text, words, k + 1)

\* check_wake_word, with the test for the phrase left out
check_wake_word_unchecked(text, lang) ==
    [found |-> TRUE, remainder |-> strip(text)]

check_wake_word(text, lang) ==
    wake_loop(text, LANGUAGES[lang].wake_words, 1)

(***************************************************************************)
(* Audio frames and the recognizer (vosk, an external collaborator).       *)
(* A frame is what the microphone delivered in 250 ms: the word each       *)
(* language's model hears in it (<<>> for none) and whether the recognizer *)
(* finds an utterance boundary in it.  Whether the JSON the recognizer     *)
(* returns is well-formed is the recognizer's choice at each call.         *)
(***************************************************************************)
Silence ==
    [ru |-> <<>>, en |-> <<>>, end |-> FALSE]
Endpoint ==
    [ru |-> <<>>, en |-> <<>>, end |-> TRUE]
WakeBoth ==
    [ru |-> W_kompyuter, en |-> W_computer, end |-> FALSE]
WakeEn ==
    [ru |-> <<>>, en |-> W_computer, end |-> FALSE]
Speech ==
    [ru |-> W_privet, en |-> W_hello, end |-> FALSE]

Frames ==
    {Silence, Endpoint, WakeBoth, WakeEn, Speech}

\* 1 when the frame carries a word for some language
Words(f) ==
    IF \E l \in Langs : f[l] # <<>> THEN 1 ELSE 0

\* the hypothesis of a recognizer of language lang after it heard frame f
Heard(h, f, lang) ==
    IF f[lang] = <<>> THEN h ELSE Append(h, f[lang])

\* KaldiRecognizer.AcceptWaveform(data) followed by Result() or
\* PartialResult(): whether a boundary was reached, the recognizer's state
\* afterwards (Result() starts a new utterance), and the JSON it returns
\* (ok = FALSE, when the JSON is bad: json.loads or result.get raises on it)
AcceptWaveform(h, f, lang, bad) ==
    [final |-> f.end,
     hyp   |-> IF f.end THEN <<>> ELSE Heard(h, f, lang),
     ok    |-> ~bad,
     text  |-> join(Heard(h, f, lang))]

\* KaldiRecognizer.Reset()
Reset(h) ==
    <<>>

\* KaldiRecognizer, for a recognizer that comes with a hypothesis
KaldiRecognizerStale ==
    <<W_computer>>

\* KaldiRecognizer(models[lang], SAMPLE_RATE): a recognizer that heard nothing
KaldiRecognizer ==
    <<>>

(***************************************************************************)
(* State                                                                   *)
(***************************************************************************)
VARIABLES
    pc,              \* where the consumer (main) is: "wait" (line 147),
                     \* "listen" (listen_for_dictation, line 89), "type"
                     \* (subprocess.run, line 60), "done" (main has returned)
    exit_code,       \* the process's exit status once pc = "done"
    audio_queue,     \* audio_queue: frames pushed and not yet taken
    spoken,          \* word-carrying frames pushed so far
    recognizers,     \* recognizers[lang]: hypothesis of each wake recognizer
    dict_recognizer, \* hypothesis of the session's recognizer
    detected_lang,   \* detected_lang of main ("" for None)
    remainder,       \* remainder of main
    text_parts,      \* text_parts of listen_for_dictation
    silent_for,      \* time.time() - last_speech_time, saturating at
                     \* SILENCE_TIMEOUT
    typed,           \* the texts handed to xdotool so far (the text sink)
    ev,              \* history: the event each recognizer gave in the step
                     \* just taken (no event unless the step was a poll
                     \* cycle of the consumer that took a frame)
    quiet,           \* history: time since the last event with non-empty
                     \* trimmed text of the session, or since its start,
                     \* saturating at SILENCE_TIMEOUT
    sessions,        \* history: listen_for_dictation calls not yet returned
    finals,          \* history: the trimmed, non-empty texts of the Final
                     \* events of the session, in the order they came
    arg_text,        \* check_wake_word on its own: the text,
    arg_lang,        \* the language,
    ret              \* and what it returned

vars ==
    <<pc, exit_code, audio_queue, spoken, recognizers, dict_recognizer,
      detected_lang, remainder, text_parts, silent_for, typed, ev, quiet,
      sessions, finals, arg_text, arg_lang, ret>>

\* SILENCE_TIMEOUT = 2.0, in seconds
SILENCE_TIMEOUT == 2

\* audio_queue = queue.Queue(): the maxsize of the queue is its default, 0
maxsize ==
    0

\* full, for a queue made with room for one frame
full_at_one(q) ==
    Len(q) >= 1

\* Queue.full(): "if maxsize is <= 0, the queue size is infinite", so that
\* a queue made without a maxsize is never full and put never waits
full(q) ==
    maxsize > 0 /\ Len(q) >= maxsize

NoEvent ==
    [kind |-> "None", text |-> <<>>]
NoEvents ==
    [l \in Langs |-> NoEvent]
NoReturn ==
    [called |-> FALSE, found |-> FALSE, remainder |-> <<>>]

\* the event a recognizer's answer amounts to
EventOf(r) ==
    IF ~r.ok THEN [kind |-> "Malformed", text |-> <<>>]
    ELSE [kind |-> IF r.final THEN "Final" ELSE "Partial", text |-> r.text]

Min(a, b) ==
    IF a <= b THEN a ELSE b

\* the dispatcher's state, read off the consumer's position
SessionState ==
    CASE pc = "listen" -> "Dictating"
      [] pc = "done" -> "Stopped"
      [] OTHER -> "WaitingForWakeWord"

Locals ==
    <<dict_recognizer, detected_lang, remainder, text_parts, silent_for, quiet,
      finals>>
WakeVars ==
    <<arg_text, arg_lang, ret>>

Init ==
    /\ pc = "wait"
    /\ exit_code = 0
    /\ audio_queue = <<>>
    /\ spoken = 0
    /\ recognizers = [l \in Langs |-> KaldiRecognizer]
    /\ dict_recognizer = <<>>
    /\ detected_lang = ""
    /\ remainder = <<>>
    /\ text_parts = <<>>
    /\ silent_for = 0
    /\ typed = <<>>
    /\ ev = NoEvents
    /\ quiet = 0
    /\ sessions = 0
    /\ finals = <<>>
    /\ arg_text = <<>>
    /\ arg_lang = "ru"
    /\ ret = NoReturn

\* main returns (code 0) or sys.exit(1): the input stream is closed and the
\* process's memory is gone; what was typed stays typed (and the history of
\* the last session's Final texts stays as it is)
Exit(code) ==
    /\ pc' = "done"
    /\ exit_code' = code
    /\ audio_queue' = <<>>
    /\ recognizers' = [l \in Langs |-> <<>>]
    /\ dict_recognizer' = <<>>
    /\ detected_lang' = ""
    /\ remainder' = <<>>
    /\ text_parts' = <<>>
    /\ silent_for' = 0
    /\ quiet' = 0
    /\ sessions' = 0
    /\ UNCHANGED <<spoken, typed, finals>>

(***************************************************************************)
(* The producer                                                            *)
(***************************************************************************)
\* audio_callback, with the frame put at the head of the queue
audio_callback_front(f, status) ==
    /\ pc # "done"
    /\ ~full(audio_queue)
    /\ Len(audio_queue) < MaxQueue
    /\ spoken + Words(f) <= MaxWords
    /\ audio_queue' = <<f>> \o audio_queue
    /\ spoken' = spoken + Words(f)
    /\ ev' = NoEvents
    /\ UNCHANGED <<pc, exit_code, recognizers, typed, sessions>>
    /\ UNCHANGED Locals
    /\ UNCHANGED WakeVars

\* audio_callback: log a warning when status is set, then put the frame
\* (put waits while the queue is full); the other two guards keep the
\* exploration finite
audio_callback(f, status) ==
    /\ pc # "done"
    /\ ~full(audio_queue)
    /\ Len(audio_queue) < MaxQueue
    /\ spoken + Words(f) <= MaxWords
    /\ audio_queue' = Append(audio_queue, f)
    /\ spoken' = spoken + Words(f)
    /\ ev' = NoEvents
    /\ UNCHANGED <<pc, exit_code, recognizers, typed, sessions>>
    /\ UNCHANGED Locals
    /\ UNCHANGED WakeVars

(***************************************************************************)
(* The consumer: main                                                      *)
(***************************************************************************)
RECURSIVE scan_on_partial(_, _, _, _, _)
\* scan, with the recognizer's text looked at whether or not AcceptWaveform
\* reported a boundary
scan_on_partial(k, recs, events, f, bad) ==
    IF k > Len(LangOrder)
    THEN [recs |-> recs, ev |-> events, outcome |-> "none",
          lang |-> "", remainder |-> <<>>]
    ELSE LET lang == LangOrder[k]
             r == AcceptWaveform(recs[lang], f, lang, bad)
             recs2 == [recs EXCEPT ![lang] = r.hyp]
             ev2 == [events EXCEPT ![lang] = EventOf(r)]
             w == check_wake_word(strip(r.text), lang)
         IN  IF ~r.ok
             THEN [recs |-> recs2, ev |-> ev2, outcome |-> "error",
                   lang |-> "", remainder |-> <<>>]
             ELSE IF w.found
             THEN [recs |-> recs2, ev |-> ev2, outcome |-> "match",
                   lang |-> lang, remainder |-> w.remainder]
             ELSE scan_on_partial(k + 1, recs2, ev2, f, bad)

RECURSIVE scan_last_wins(_, _, _, _, _)
\* scan, without the break: a later language that matches too takes over
scan_last_wins(k, recs, events, f, bad) ==
    IF k > Len(LangOrder)
    THEN [recs |-> recs, ev |-> events, outcome |-> "none",
          lang |-> "", remainder |-> <<>>]
    ELSE LET lang == LangOrder[k]
             r == AcceptWaveform(recs[lang], f, lang, bad)
             recs2 == [recs EXCEPT ![lang] = r.hyp]
             ev2 == [events EXCEPT ![lang] = EventOf(r)]
             w == check_wake_word(strip(r.text), lang)
             evp == [events EXCEPT ![lang] = [kind |-> "Partial", text |-> r.text]]
             rest == scan_last_wins(k + 1, recs2, IF r.final THEN ev2 ELSE evp, f, bad)
         IN  IF ~r.final THEN rest
             ELSE IF ~r.ok
             THEN [recs |-> recs2, ev |-> ev2, outcome |-> "error",
                   lang |-> "", remainder |-> <<>>]
             ELSE IF w.found /\ rest.outcome = "none"
             THEN [recs |-> rest.recs, ev |-> rest.ev, outcome |-> "match",
                   lang |-> lang, remainder |-> w.remainder]
             ELSE rest

RECURSIVE scan(_, _, _, _, _)
\* the for loop of main over recognizers.items(), from the k-th language on,
\* for frame f: the recognizers' states afterwards, the event each one gave,
\* and how the loop ended ("match": break with detected_lang and remainder;
\* "error": json.loads raised; "none": the loop ran out); bad: the JSON of a
\* Result() in this iteration is malformed (without a boundary the loop asks
\* the recognizer for nothing, and its event is the Partial it holds)
scan(k, recs, events, f, bad) ==
    IF k > Len(LangOrder)
    THEN [recs |-> recs, ev |-> events, outcome |-> "none",
          lang |-> "", remainder |-> <<>>]
    ELSE LET lang == LangOrder[k]
             r == AcceptWaveform(recs[lang], f, lang, bad)
             recs2 == [recs EXCEPT ![lang] = r.hyp]
             ev2 == [events EXCEPT ![lang] = EventOf(r)]
             evp == [events EXCEPT ![lang] = [kind |-> "Partial", text |-> r.text]]
             w == check_wake_word(strip(r.text), lang)
         IN  IF ~r.final THEN scan(k + 1, recs2, evp, f, bad)
             ELSE IF ~r.ok
             THEN [recs |-> recs2, ev |-> ev2, outcome |-> "error",
                   lang |-> "", remainder |-> <<>>]
             ELSE IF w.found
             THEN [recs |-> recs2, ev |-> ev2, outcome |-> "match",
                   lang |-> lang, remainder |-> w.remainder]
             ELSE scan(k + 1, recs2, ev2, f, bad)

\* ResetAll, with the reset left out
ResetNone(recs) ==
    recs

\* for rec in recognizers.values(): rec.Reset()
ResetAll(recs) ==
    [l \in Langs |-> Reset(recs[l])]

\* audio_queue.get(timeout=1.0) raises queue.Empty: continue
MainPollEmpty ==
    /\ pc = "wait"
    /\ audio_queue = <<>>
    /\ ev' = NoEvents
    /\ UNCHANGED <<pc, exit_code, audio_queue, spoken, recognizers, typed, sessions>>
    /\ UNCHANGED Locals
    /\ UNCHANGED WakeVars

\* one iteration of the while loop of main on a frame, up to the call of
\* listen_for_dictation (which sets text_parts and last_speech_time)
MainFrame(bad) ==
    /\ pc = "wait"
    /\ audio_queue # <<>>
    /\ LET s == scan(1, recognizers, NoEvents, Head(audio_queue), bad)
       IN  /\ ev' = s.ev
           /\ CASE s.outcome = "match" ->
                     /\ audio_queue' = Tail(audio_queue)
                     /\ recognizers' = s.recs
                     /\ pc' = "listen"
                     /\ detected_lang' = s.lang
                     /\ remainder' = s.remainder
                     /\ dict_recognizer' = KaldiRecognizer
                     /\ text_parts' = <<>>
                     /\ silent_for' = 0
                     /\ quiet' = 0
                     /\ finals' = <<>>
                     /\ sessions' = sessions + 1
                     /\ UNCHANGED <<exit_code, spoken, typed>>
                [] s.outcome = "error" ->
                     Exit(1)
                [] OTHER ->
                     /\ audio_queue' = Tail(audio_queue)
                     /\ recognizers' = s.recs
                     /\ UNCHANGED <<pc, exit_code, sessions, spoken, typed>>
                     /\ UNCHANGED Locals
    /\ UNCHANGED WakeVars

(***************************************************************************)
(* The consumer: listen_for_dictation and what main does with its result   *)
(***************************************************************************)
\* full_text, with the session's result put before the remainder
full_text_swapped(rem, dictation) ==
    join((IF dictation # <<>> THEN <<dictation>> ELSE <<>>)
         \o (IF rem # <<>> THEN <<rem>> ELSE <<>>))

\* main, lines 177-185: the text composed from the remainder and the
\* session's result
full_text(rem, dictation) ==
    join((IF rem # <<>> THEN <<rem>> ELSE <<>>)
         \o (IF dictation # <<>> THEN <<dictation>> ELSE <<>>))

\* type_text hands the text to xdotool unless it is blank
Typable(text) ==
    strip(text) # <<>>

\* the silence check after a poll that timed out (line 91), on the clock's
\* reading
SilenceOnEmpty(t) ==
    t >= SILENCE_TIMEOUT

\* SilenceAfterFrame, with the check left out
SilenceAfterFrameNever(t) ==
    FALSE

\* the silence check after a frame was processed (line 108)
SilenceAfterFrame(t) ==
    t >= SILENCE_TIMEOUT

\* the break of listen_for_dictation, its return (its locals and the
\* session's recognizer are dead from here on), and main up to the call of
\* subprocess.run in type_text, or, when there is nothing to type, up to the
\* next iteration of the while loop
\* EndSession, with the tests for an empty text (line 186 of main, line 56
\* of type_text) left out
EndSessionUnchecked(parts) ==
    /\ sessions' = sessions - 1
    /\ dict_recognizer' = <<>>
    /\ text_parts' = <<>>
    /\ silent_for' = 0
    /\ pc' = "type"
    /\ typed' = Append(typed, full_text(remainder, join(parts)))
    /\ UNCHANGED <<recognizers, detected_lang, remainder>>

EndSession(parts) ==
    /\ sessions' = sessions - 1
    /\ dict_recognizer' = <<>>
    /\ text_parts' = <<>>
    /\ silent_for' = 0
    /\ IF full_text(remainder, join(parts)) # <<>>
          /\ Typable(full_text(remainder, join(parts)))
       THEN /\ pc' = "type"
            /\ typed' = Append(typed, full_text(remainder, join(parts)))
            /\ UNCHANGED <<recognizers, detected_lang, remainder>>
       ELSE /\ pc' = "wait"
            /\ recognizers' = ResetAll(recognizers)
            /\ detected_lang' = ""
            /\ remainder' = <<>>
            /\ UNCHANGED typed

\* OnFinal, without the test for an empty text
OnFinalUnchecked(parts, text) ==
    Append(parts, strip(text))

\* lines 98-101: text_parts after a Final event with the given text
OnFinal(parts, text) ==
    IF strip(text) # <<>> THEN Append(parts, strip(text)) ELSE parts

\* OnText, with the clock never set back
OnTextNoReset(t, text) ==
    t

\* lines 99-102 and 105-106: the clock after an event with the given text
OnText(t, text) ==
    IF strip(text) # <<>> THEN 0 ELSE t

\* ListenPollEmpty, with the text so far typed and the recognizers reset at
\* each poll that times out before the silence has lasted
ListenPollEmptyFlushing ==
    /\ pc = "listen"
    /\ audio_queue = <<>>
    /\ ev' = NoEvents
    /\ UNCHANGED <<quiet, finals>>
    /\ IF SilenceOnEmpty(silent_for)
       THEN EndSession(text_parts)
       ELSE /\ typed' = IF text_parts # <<>> THEN Append(typed, join(text_parts))
                        ELSE typed
            /\ text_parts' = <<>>
            /\ recognizers' = ResetAll(recognizers)
            /\ UNCHANGED <<pc, sessions, dict_recognizer, detected_lang,
                           remainder, silent_for>>
    /\ UNCHANGED <<exit_code, audio_queue, spoken>>
    /\ UNCHANGED WakeVars

\* audio_queue.get(timeout=0.1) raises queue.Empty: the silence check of
\* line 91
ListenPollEmpty ==
    /\ pc = "listen"
    /\ audio_queue = <<>>
    /\ ev' = NoEvents
    /\ UNCHANGED <<quiet, finals>>
    /\ IF SilenceOnEmpty(silent_for)
       THEN EndSession(text_parts)
       ELSE UNCHANGED <<pc, typed, recognizers, sessions, dict_recognizer,
                        detected_lang, remainder, text_parts, silent_for>>
    /\ UNCHANGED <<exit_code, audio_queue, spoken>>
    /\ UNCHANGED WakeVars

\* one iteration of the while loop of listen_for_dictation on a frame; when
\* json.loads raises, main's except Exception and sys.exit(1)
ListenFrame(bad) ==
    /\ pc = "listen"
    /\ audio_queue # <<>>
    /\ LET r == AcceptWaveform(dict_recognizer, Head(audio_queue), detected_lang, bad)
           parts == IF r.final THEN OnFinal(text_parts, r.text) ELSE text_parts
           t == OnText(silent_for, r.text)
       IN  /\ ev' = [NoEvents EXCEPT ![detected_lang] = EventOf(r)]
           /\ IF ~r.ok
              THEN Exit(1)
              ELSE /\ audio_queue' = Tail(audio_queue)
                   /\ quiet' = IF strip(r.text) # <<>> THEN 0 ELSE quiet
                   /\ finals' = IF r.final /\ strip(r.text) # <<>>
                                THEN Append(finals, strip(r.text))
                                ELSE finals
                   /\ UNCHANGED <<exit_code, spoken>>
                   /\ IF SilenceAfterFrame(t)
                      THEN EndSession(parts)
                      ELSE /\ dict_recognizer' = r.hyp
                           /\ text_parts' = parts
                           /\ silent_for' = t
                           /\ UNCHANGED <<pc, typed, recognizers, sessions,
                                          detected_lang, remainder>>
    /\ UNCHANGED WakeVars

\* a second passes while the session runs
Tick ==
    /\ pc = "listen"
    /\ silent_for < SILENCE_TIMEOUT \/ quiet < SILENCE_TIMEOUT
    /\ silent_for' = Min(silent_for + 1, SILENCE_TIMEOUT)
    /\ quiet' = Min(quiet + 1, SILENCE_TIMEOUT)
    /\ ev' = NoEvents
    /\ UNCHANGED <<pc, exit_code, audio_queue, spoken, recognizers, typed,
                   sessions, dict_recognizer, detected_lang, remainder, text_parts,
                   finals>>
    /\ UNCHANGED WakeVars

(***************************************************************************)
(* type_text                                                               *)
(***************************************************************************)
\* how subprocess.run(["xdotool", ...], check=True, timeout=10) can end
XdoOutcomes ==
    {"ok", "TimeoutExpired", "CalledProcessError", "FileNotFoundError"}

\* except subprocess.SubprocessError
SubprocessError(outcome) ==
    outcome \in {"TimeoutExpired", "CalledProcessError"}

\* subprocess.run returns or raises; then the rest of the iteration of main
\* (the recognizers' reset), or main's except Exception and sys.exit(1)
TypeReturn(outcome) ==
    /\ pc = "type"
    /\ IF outcome = "ok" \/ SubprocessError(outcome)
       THEN /\ pc' = "wait"
            /\ recognizers' = ResetAll(recognizers)
            /\ detected_lang' = ""
            /\ remainder' = <<>>
            /\ UNCHANGED <<exit_code, audio_queue, spoken, typed, sessions,
                           dict_recognizer, text_parts, silent_for, quiet, finals>>
       ELSE Exit(1)
    /\ ev' = NoEvents
    /\ UNCHANGED WakeVars

\* Interrupt, with the text of the session under way typed before main
\* returns
InterruptFlushing ==
    /\ pc # "done"
    /\ pc' = "done"
    /\ exit_code' = 0
    /\ audio_queue' = <<>>
    /\ recognizers' = [l \in Langs |-> <<>>]
    /\ dict_recognizer' = <<>>
    /\ detected_lang' = ""
    /\ remainder' = <<>>
    /\ text_parts' = <<>>
    /\ silent_for' = 0
    /\ quiet' = 0
    /\ sessions' = 0
    /\ typed' = IF pc = "listen" /\ full_text(remainder, join(text_parts)) # <<>>
                THEN Append(typed, full_text(remainder, join(text_parts)))
                ELSE typed
    /\ ev' = NoEvents
    /\ UNCHANGED <<spoken, finals>>
    /\ UNCHANGED WakeVars

\* KeyboardInterrupt, wherever the consumer is: main logs and returns
Interrupt ==
    /\ pc # "done"
    /\ Exit(0)
    /\ ev' = NoEvents
    /\ UNCHANGED WakeVars

Next ==
    \/ \E f \in Frames, status \in BOOLEAN : audio_callback(f, status)
    \/ MainPollEmpty
    \/ \E bad \in BOOLEAN : MainFrame(bad)
    \/ ListenPollEmpty
    \/ \E bad \in BOOLEAN : ListenFrame(bad)
    \/ Tick
    \/ \E outcome \in XdoOutcomes : TypeReturn(outcome)
    \/ Interrupt

Spec ==
    Init /\ [][Next]_vars

\* the consumer thread keeps running and time keeps passing
FairSpec ==
    /\ Init
    /\ [][Next]_vars
    /\ WF_vars(ListenPollEmpty \/ \E bad \in BOOLEAN : ListenFrame(bad))
    /\ WF_vars(Tick)

(***************************************************************************)
(* check_wake_word on its own, on texts put together from segments         *)
(***************************************************************************)
\* "COMPUTER"
W_COMPUTER ==
    <<"C", "O", "M", "P", "U", "T", "E", "R">>
\* "КОмпьютер"
W_KOmpyuter ==
    <<"CYR_K", "CYR_O", "cyr_m", "cyr_p", "cyr_soft", "cyr_yu", "cyr_t", "cyr_e", "cyr_r">>

Segments ==
    {W_computer, W_COMPUTER, W_kompyuter, W_KOmpyuter, W_komputer,
     <<" ">>, <<"I_dot">>, <<"h", "i">>}

RECURSIVE TextsOf(_)
\* the texts of at most n segments
TextsOf(n) ==
    IF n = 0 THEN {<<>>}
    ELSE TextsOf(n - 1) \cup {t \o g : t \in TextsOf(n - 1), g \in Segments}

InitWake ==
    /\ pc = "wait"
    /\ exit_code = 0
    /\ audio_queue = <<>>
    /\ spoken = 0
    /\ recognizers = [l \in Langs |-> KaldiRecognizer]
    /\ dict_recognizer = <<>>
    /\ detected_lang = ""
    /\ remainder = <<>>
    /\ text_parts = <<>>
    /\ silent_for = 0
    /\ typed = <<>>
    /\ ev = NoEvents
    /\ quiet = 0
    /\ sessions = 0
    /\ finals = <<>>
    /\ arg_text \in TextsOf(MaxSegs)
    /\ arg_lang \in Langs
    /\ ret = NoReturn

\* the call check_wake_word(arg_text, arg_lang)
WakeCall ==
    /\ ~ret.called
    /\ ret' = [called |-> TRUE,
               found |-> check_wake_word(arg_text, arg_lang).found,
               remainder |-> check_wake_word(arg_text, arg_lang).remainder]
    /\ UNCHANGED <<pc, exit_code, audio_queue, spoken, recognizers, typed, ev,
                   sessions, arg_text, arg_lang>>
    /\ UNCHANGED Locals

NextWake ==
    WakeCall

SpecWake ==
    InitWake /\ [][NextWake]_vars

(***************************************************************************)
(* Properties of check_wake_word                                           *)
(***************************************************************************)
\* the places <<i, j>> of the text at which phrase w stands in some letter
\* case: the substring from the i-th to the j-th character (1-based) is w
\* once lower-cased
Places(w, text) ==
    {p \in (1..Len(text)) \X (1..Len(text)) :
        /\ p[1] <= p[2]
        /\ p[2] - p[1] < Len(w)
        /\ lower(SubSeq(text, p[1], p[2])) = w}

\* the text holds a wake phrase of the language, in some letter case
HasWakePhrase(text, lang) ==
    \E k \in 1..Len(LANGUAGES[lang].wake_words) :
        Places(LANGUAGES[lang].wake_words[k], text) # {}

\* the text after place p, trimmed
After(text, p) ==
    strip(SubSeq(text, p[2] + 1, Len(text)))

\* C6: whatever the text and the language, check_wake_word reports found
\* exactly when the text holds a configured phrase in some letter case, and
\* then its remainder is the original text after an occurrence of a
\* configured phrase, trimmed.
C6_ExactRemainder ==
    ret.called =>
        /\ ret.found = HasWakePhrase(arg_text, arg_lang)
        /\ ret.found =>
              \E k \in 1..Len(LANGUAGES[arg_lang].wake_words) :
                  \E p \in Places(LANGUAGES[arg_lang].wake_words[k], arg_text) :
                      ret.remainder = After(arg_text, p)

\* the first configured phrase, in declared order, that the text holds
FirstPhrase(text, lang) ==
    LET ws == LANGUAGES[lang].wake_words
        k == CHOOSE k \in 1..Len(ws) :
                 /\ Places(ws[k], text) # {}
                 /\ \A m \in 1..(k - 1) : Places(ws[m], text) = {}
    IN  ws[k]

\* the earliest place of phrase w in the text
EarliestPlace(w, text) ==
    CHOOSE p \in Places(w, text) : \A q \in Places(w, text) : p[1] <= q[1]

\* the text holds at least two of the language's configured phrases
SeveralPhrases(text, lang) ==
    \E k, m \in 1..Len(LANGUAGES[lang].wake_words) :
        /\ k # m
        /\ Places(LANGUAGES[lang].wake_words[k], text) # {}
        /\ Places(LANGUAGES[lang].wake_words[m], text) # {}

\* C7: when the text holds several configured phrases of the language, the
\* first configured one wins at its earliest occurrence, and the remainder
\* is the original text after the end of that occurrence, trimmed.
C7_FirstPhraseWins ==
    (ret.called /\ SeveralPhrases(arg_text, arg_lang)) =>
        /\ ret.found
        /\ ret.remainder =
              After(arg_text, EarliestPlace(FirstPhrase(arg_text, arg_lang), arg_text))

(***************************************************************************)
(* Properties of the dispatcher and the dictation session                  *)
(***************************************************************************)
\* the step takes a frame off the queue while the process goes on
TakesFrame ==
    /\ audio_queue # <<>>
    /\ audio_queue' = Tail(audio_queue)
    /\ pc' # "done"

\* the step is where the dispatcher enters Dictating
EntersDictating ==
    SessionState # "Dictating" /\ SessionState' = "Dictating"

\* the step is where the session terminates and the process goes on
SessionEnds ==
    SessionState = "Dictating" /\ SessionState' = "WaitingForWakeWord"

\* some recognizer gave an event with this kind and empty trimmed text in the
\* last poll cycle
EmptyEvent(kind) ==
    \E l \in Langs : ev[l].kind = kind /\ strip(ev[l].text) = <<>>

\* C1: at most one dictation session is active; the dispatcher enters
\* Dictating only from WaitingForWakeWord, in the step whose frame gave a
\* Final event of the detected language with a wake phrase of that language
\* in its text; it leaves Dictating for WaitingForWakeWord only in a poll
\* cycle of the session that found the silence timeout elapsed (every other
\* way out of Dictating ends the process).
C1_SessionLifecycle ==
    [][/\ sessions' \in {0, 1}
       /\ (sessions' = 1) = (SessionState' = "Dictating")
       /\ EntersDictating =>
             /\ SessionState = "WaitingForWakeWord"
             /\ TakesFrame
             /\ detected_lang' \in Langs
             /\ ev'[detected_lang'].kind = "Final"
             /\ HasWakePhrase(ev'[detected_lang'].text, detected_lang')
       /\ SessionState = "Dictating" =>
             \/ SessionState' = "Dictating"
             \/ SessionState' = "Stopped"
             \/ /\ SessionEnds
                /\ quiet' >= SILENCE_TIMEOUT
                /\ TakesFrame \/ (audio_queue = <<>> /\ audio_queue' = <<>>)]_vars

\* C1 witness: a session was entered on a wake phrase and has just been left
\* through the silence timeout
C1_Witness ==
    /\ pc = "type"
    /\ sessions = 0
    /\ quiet >= SILENCE_TIMEOUT
    /\ detected_lang = "en"

\* C2: a session terminates only when at least SILENCE_TIMEOUT has passed
\* since its last Partial or Final event with non-empty text (or since its
\* start); an empty Partial leaves the silence clock as it is, so that after
\* Final("hello"), Partial("") and the timeout the session yields "hello".
C2_TerminatesAfterSilence ==
    [][/\ SessionEnds => quiet' >= SILENCE_TIMEOUT
       /\ (SessionState = "Dictating" /\ SessionState' = "Dictating"
           /\ TakesFrame /\ EmptyEvent("Partial")') =>
             silent_for' = silent_for
       /\ (SessionEnds /\ pc' = "type" /\ remainder' = <<>>) =>
             typed'[Len(typed')] = join(finals')]_vars

\* C2 witness: the session saw Final("hello"), its last event was an empty
\* Partial, and it ended on the timeout yielding "hello"
C2_Witness ==
    /\ pc = "type"
    /\ remainder = <<>>
    /\ finals = <<W_hello>>
    /\ typed[Len(typed)] = W_hello
    /\ EmptyEvent("Partial")
    /\ quiet >= SILENCE_TIMEOUT

\* the event of the session's recognizer in the step's poll cycle
SessionEvent ==
    ev'[detected_lang]

\* C4: in a session, a Final event with non-empty trimmed text appends that
\* text to the accumulator and resets the silence clock; a Partial event
\* with non-empty trimmed text resets the clock and leaves the accumulator
\* alone; an empty Final or Partial changes neither.
C4_EventEffects ==
    [][(SessionState = "Dictating" /\ TakesFrame) =>
          /\ (SessionEvent.kind = "Final" /\ strip(SessionEvent.text) # <<>>) =>
                /\ SessionState' = "Dictating"
                /\ text_parts' = Append(text_parts, strip(SessionEvent.text))
                /\ silent_for' = 0
          /\ (SessionEvent.kind = "Partial" /\ strip(SessionEvent.text) # <<>>) =>
                /\ SessionState' = "Dictating"
                /\ text_parts' = text_parts
                /\ silent_for' = 0
          /\ (SessionEvent.kind \in {"Final", "Partial"}
              /\ strip(SessionEvent.text) = <<>>) =>
                IF SessionState' = "Dictating"
                THEN text_parts' = text_parts /\ silent_for' = silent_for
                ELSE /\ silent_for >= SILENCE_TIMEOUT
                     /\ typed' \in {typed,
                                    Append(typed, full_text(remainder, join(text_parts)))}]_vars

\* C4 witness: a session that has appended a Final text, whose clock has
\* since moved, and whose last event was an empty Final
C4_Witness ==
    /\ pc = "listen"
    /\ text_parts # <<>>
    /\ silent_for = 1
    /\ EmptyEvent("Final")

RECURSIVE SpaceJoined(_)
\* the texts of a sequence one after the other, a single space between two
SpaceJoined(texts) ==
    IF Len(texts) = 0 THEN <<>>
    ELSE IF Len(texts) = 1 THEN texts[1]
    ELSE SpaceJoined(SubSeq(texts, 1, Len(texts) - 1)) \o <<" ">> \o texts[Len(texts)]

\* C5: the text composed at the end of a session is the remainder of the
\* wake utterance (when not empty) followed by the session's non-empty Final
\* texts in the order they came, single spaces between them; with remainder
\* "привет" and no further speech it is exactly "привет".
C5_ComposedText ==
    [][SessionEnds =>
          LET wanted == SpaceJoined((IF remainder = <<>> THEN <<>> ELSE <<remainder>>)
                                    \o finals')
          IN  /\ wanted # <<>> => (pc' = "type" /\ typed' = Append(typed, wanted))
              /\ wanted = <<>> => (pc' = "wait" /\ typed' = typed)
              /\ (remainder = W_privet /\ finals' = <<>>) =>
                    typed' = Append(typed, W_privet)]_vars

\* C5 witness: a remainder and a later Final text made the text being typed
C5_Witness ==
    /\ pc = "type"
    /\ remainder = W_hello
    /\ finals = <<W_computer>>
    /\ typed[Len(typed)] = W_hello \o <<" ">> \o W_computer

\* an event with non-empty text has just been processed in the session
SpeechNow ==
    /\ quiet = 0
    /\ \E l \in Langs : ev[l].kind \in {"Final", "Partial"} /\ strip(ev[l].text) # <<>>

\* C3: the silence check follows every poll cycle of a session, so once the
\* events with non-empty text stop, the session ends, whether frames keep
\* coming or none comes: from any state of a session, the session ends or
\* another event with non-empty text is processed.
C3_SessionTerminates ==
    (pc = "listen") ~> (pc # "listen" \/ SpeechNow)

\* C3 witness: a session ended in the cycle of a frame that gave an empty
\* Partial (the check of line 108)
C3_Witness ==
    /\ pc = "type"
    /\ quiet >= SILENCE_TIMEOUT
    /\ EmptyEvent("Partial")
    /\ typed # <<>>

\* what the recognizer of language l would answer to the frame at the head
\* of the queue (in well-formed JSON)
WouldAnswer(l) ==
    AcceptWaveform(recognizers[l], Head(audio_queue), l, FALSE)

\* the recognizer of language l would give a Final event with a wake phrase
WouldMatch(l) ==
    /\ WouldAnswer(l).final
    /\ WouldAnswer(l).ok
    /\ HasWakePhrase(WouldAnswer(l).text, l)

\* C8: waiting for the wake word, when the recognizers of both languages
\* would give a matching Final event for the frame, the language configured
\* first ("ru") wins: the session starts for it with the remainder of its
\* text, and the other recognizer is not evaluated for that frame, so that
\* its event and its state have no part in the session.
C8_FirstLanguageWins ==
    [][(pc = "wait" /\ TakesFrame /\ WouldMatch("ru") /\ WouldMatch("en")) =>
          /\ pc' = "listen"
          /\ detected_lang' = "ru"
          /\ remainder' =
                After(WouldAnswer("ru").text,
                      EarliestPlace(FirstPhrase(WouldAnswer("ru").text, "ru"),
                                    WouldAnswer("ru").text))
          /\ ev'["en"] = NoEvent
          /\ recognizers'["en"] = recognizers["en"]
          /\ dict_recognizer' = <<>>
          /\ text_parts' = <<>>]_vars

\* C8 witness: a session for "ru" started on a frame the "en" recognizer,
\* which holds a wake phrase too, was not given
C8_Witness ==
    /\ pc = "listen"
    /\ detected_lang = "ru"
    /\ ev["en"] = NoEvent
    /\ HasWakePhrase(join(recognizers["en"]), "en")

\* C9 as claimed: in the step that enters Dictating every language's
\* recognizer has been reset.
C9_ResetBeforeDictating ==
    [][EntersDictating => \A l \in Langs : recognizers'[l] = <<>>]_vars

\* C9 as amended: the session listens with a recognizer made for it, which
\* has heard nothing; the languages' recognizers are left as they are when
\* the session starts and are all reset in the step that brings the
\* dispatcher back to the queue after the session (after the text, if any,
\* has been typed).
C9_ResetAfterSession ==
    [][/\ EntersDictating =>
             /\ dict_recognizer' = <<>>
             /\ \A l \in Langs : ev'[l] = NoEvent => recognizers'[l] = recognizers[l]
       /\ (pc = "listen" /\ pc' = "type") => recognizers' = recognizers
       /\ (pc \in {"listen", "type"} /\ pc' = "wait") =>
             \A l \in Langs : recognizers'[l] = <<>>]_vars

\* C9 witness: the session is over, its text is being typed, and a
\* recognizer still holds what it heard before the match
C9_Witness ==
    /\ pc = "type"
    /\ \E l \in Langs : recognizers[l] # <<>>

\* C10 as claimed: whatever way the text injection fails, the dispatcher goes
\* back to WaitingForWakeWord; the process ends during type_text only by a
\* KeyboardInterrupt (exit status 0).
C10_InjectionFailureNotFatal ==
    [][pc = "type" =>
          \/ pc' \in {"type", "wait"}
          \/ pc' = "done" /\ exit_code' = 0]_vars

\* some recognizer's output was malformed in the poll cycle of the step
MalformedOutput ==
    \E l \in Langs : ev'[l].kind = "Malformed"

\* C11 as claimed: a poll cycle in which a recognizer's output is malformed,
\* waiting for the wake word or dictating, takes the frame off the queue,
\* leaves the session state as it is and types nothing, and the process
\* goes on.
C11_MalformedOutputSkipped ==
    [][MalformedOutput =>
          /\ pc' # "done"
          /\ SessionState' = SessionState
          /\ audio_queue' = Tail(audio_queue)
          /\ typed' = typed]_vars

\* every recognizer that was asked in the last poll cycle gave a Final or a
\* Partial event with empty text, and at least one was asked
OnlyEmptyEvents ==
    /\ \A l \in Langs :
          \/ ev[l] = NoEvent
          \/ ev[l].kind \in {"Final", "Partial"} /\ strip(ev[l].text) = <<>>
    /\ \E l \in Langs : ev[l] # NoEvent

\* C12: waiting for the wake word, a frame for which the recognizers give
\* only Final and Partial events with empty text leaves the dispatcher
\* waiting: no session starts and nothing is handed to type_text (so no
\* sequence of such frames does either).
C12_IdleFramesChangeNothing ==
    [][(SessionState = "WaitingForWakeWord" /\ pc = "wait" /\ TakesFrame
        /\ OnlyEmptyEvents') =>
          /\ pc' = "wait"
          /\ sessions' = 0
          /\ detected_lang' = detected_lang
          /\ remainder' = remainder
          /\ typed' = typed]_vars

\* C12 witness: the dispatcher is waiting after a frame on which every
\* recognizer gave an empty Final
C12_Witness ==
    /\ pc = "wait"
    /\ typed = <<>>
    /\ \A l \in Langs : ev[l].kind = "Final" /\ strip(ev[l].text) = <<>>

C14_NothingMidSession ==
    [][/\ (SessionState = "Dictating" /\ SessionState' = "Dictating") =>
             /\ typed' = typed
             /\ recognizers' = recognizers
       /\ EntersDictating => typed' = typed]_vars

\* C14 witness: a session that has accumulated text while a language's
\* recognizer still holds what it heard before the match, nothing typed
C14_Witness ==
    /\ pc = "listen"
    /\ text_parts # <<>>
    /\ typed = <<>>
    /\ \E l \in Langs : recognizers[l] # <<>>

\* what the session's recognizer would answer to the frame at the head of
\* the queue (in well-formed JSON)
SessionWouldAnswer ==
    AcceptWaveform(dict_recognizer, Head(audio_queue), detected_lang, FALSE)

\* C15: the queue changes only by a push at its tail, by the consumer taking
\* its head, or by the end of the process, so frames are taken in the order
\* they were pushed and each one once; the frame taken is handled by wake
\* detection alone when the dispatcher waits (the session's recognizer and
\* accumulator get nothing of it) and by the session alone when it dictates
\* (no language's recognizer gives an event), and the events of the cycle are
\* those of that frame; within a session the accumulator changes only by
\* appending, at its end, the text of the frame just taken.
C15_FramesInOrder ==
    [][/\ audio_queue' # audio_queue =>
             \/ /\ \E f \in Frames : audio_queue' = Append(audio_queue, f)
                /\ pc' = pc
                /\ recognizers' = recognizers
                /\ dict_recognizer' = dict_recognizer
                /\ text_parts' = text_parts
             \/ TakesFrame /\ pc \in {"wait", "listen"}
             \/ pc' = "done" /\ audio_queue' = <<>>
       /\ (TakesFrame /\ pc = "wait") =>
             /\ \A l \in Langs : ev'[l] \in {NoEvent, EventOf(WouldAnswer(l))}
             /\ dict_recognizer' = <<>>
             /\ text_parts' = <<>>
       /\ (TakesFrame /\ pc = "listen") =>
             /\ ev' = [NoEvents EXCEPT ![detected_lang] = EventOf(SessionWouldAnswer)]
             /\ \A l \in Langs : recognizers'[l] \in {recognizers[l], <<>>}
       /\ (pc = "listen" /\ pc' = "listen") =>
             \/ text_parts' = text_parts
             \/ /\ TakesFrame
                /\ SessionWouldAnswer.final
                /\ text_parts' = Append(text_parts, strip(SessionWouldAnswer.text))]_vars

\* C15 witness: a session whose accumulator holds two different fragments,
\* with a frame waiting in the queue
C15_Witness ==
    /\ pc = "listen"
    /\ Len(text_parts) = 2
    /\ text_parts[1] # text_parts[2]
    /\ audio_queue # <<>>

\* C16 as claimed: the queue has a fixed capacity, and a push never takes it
\* beyond that capacity, wherever the consumer is (also while it waits for
\* xdotool in type_text).
C16_QueueBounded ==
    [][Len(audio_queue') > Len(audio_queue) =>
          /\ maxsize > 0
          /\ Len(audio_queue') <= maxsize]_vars

\* C17: a KeyboardInterrupt can come in every state of the running process;
\* the step in which the process ends hands nothing to type_text, whatever
\* the session under way had accumulated and whatever remainder it started
\* with, and leaves nothing of them behind; once the process has ended
\* nothing is typed any more.
C17_ShutdownDiscards ==
    [][/\ pc # "done" => ENABLED Interrupt
       /\ (pc # "done" /\ pc' = "done") =>
             /\ typed' = typed
             /\ text_parts' = <<>>
             /\ remainder' = <<>>
             /\ audio_queue' = <<>>
       /\ pc = "done" =>
             /\ pc' = "done"
             /\ typed' = typed]_vars

\* C17 witness: the process was interrupted in a session that had
\* accumulated Final texts, of which nothing was typed
C17_Witness ==
    /\ pc = "done"
    /\ exit_code = 0
    /\ finals # <<>>
    /\ typed = <<>>

\* C18: while the process runs, audio_callback can take its step for any
\* frame, with the status flag set or not, whatever the consumer is doing
\* and however many frames the queue holds (up to the bounds of the
\* exploration); its step puts exactly one frame at the tail of the queue
\* and leaves the session state, the accumulator, the silence clock, the
\* recognizers and the typed texts as they are.
C18_ProducerNeverBlocks ==
    [][/\ \A f \in Frames, status \in BOOLEAN :
             (/\ pc # "done"
              /\ Len(audio_queue) < MaxQueue
              /\ spoken + Words(f) <= MaxWords) => ENABLED audio_callback(f, status)
       /\ Len(audio_queue') > Len(audio_queue) =>
             /\ \E f \in Frames : audio_queue' = Append(audio_queue, f)
             /\ pc' = pc
             /\ SessionState' = SessionState
             /\ text_parts' = text_parts
             /\ silent_for' = silent_for
             /\ recognizers' = recognizers
             /\ dict_recognizer' = dict_recognizer
             /\ typed' = typed]_vars

\* C18 witness: a frame has just been pushed behind the back of a session
\* that holds accumulated text
C18_Witness ==
    /\ pc = "listen"
    /\ text_parts # <<>>
    /\ silent_for = 0
    /\ quiet = 0
    /\ ev = NoEvents
    /\ audio_queue # <<>>

\* C19: the session's recognizer is made at the wake match and has heard
\* nothing, and the accumulator starts empty, so that the frame of the match
\* and what the languages' recognizers held go into the session only as the
\* remainder; each frame taken while Dictating goes to the session's
\* recognizer, whose state and event depend on that frame and its own state
\* alone, while no language's recognizer gives an event or changes.
C19_SessionRecognizerAlone ==
    [][/\ EntersDictating =>
             /\ dict_recognizer' = <<>>
             /\ text_parts' = <<>>
       /\ (pc = "listen" /\ TakesFrame) =>
             /\ ev'[detected_lang] = EventOf(SessionWouldAnswer)
             /\ \A l \in Langs \ {detected_lang} : ev'[l] = NoEvent
       /\ (pc = "listen" /\ pc' = "listen") =>
             /\ recognizers' = recognizers
             /\ dict_recognizer' =
                   IF TakesFrame THEN SessionWouldAnswer.hyp ELSE dict_recognizer]_vars

\* C19 witness: a session for "ru" whose recognizer has heard a word of the
\* session only, while the "en" recognizer still holds the wake word it
\* heard before the match
C19_Witness ==
    /\ pc = "listen"
    /\ detected_lang = "ru"
    /\ dict_recognizer = <<W_privet>>
    /\ recognizers["en"] = <<W_computer>>

\* C20: waiting for the wake word, a frame starts a session only through a
\* Final event; when the recognizers give Partial events only, the
\* dispatcher keeps waiting even if a Partial's text holds a wake phrase;
\* and when no Final text holds a wake phrase of its own language, the
\* dispatcher keeps waiting too, non-empty as the texts may be.
C20_OnlyFinalStartsSession ==
    [][(pc = "wait" /\ TakesFrame) =>
          /\ pc' = "listen" =>
                \E l \in Langs : ev'[l].kind = "Final" /\ HasWakePhrase(ev'[l].text, l)
          /\ (\A l \in Langs : ev'[l].kind = "Partial") =>
                /\ pc' = "wait"
                /\ sessions' = 0
                /\ detected_lang' = detected_lang
          /\ (\A l \in Langs : ev'[l].kind = "Final" /\ ~HasWakePhrase(ev'[l].text, l)) =>
                /\ pc' = "wait"
                /\ sessions' = 0
                /\ detected_lang' = detected_lang]_vars

\* C20 witness: the dispatcher still waits after a frame for which a
\* recognizer's Partial text holds a wake phrase
C20_Witness ==
    /\ pc = "wait"
    /\ sessions = 0
    /\ \E l \in Langs : ev[l].kind = "Partial" /\ HasWakePhrase(ev[l].text, l)

====
